---- MODULE Spec2Model ----
(***************************************************************************)
(* Model of the Steem wallet's Rust backend (src-tauri/src):               *)
(*   crypto.rs    password-derived key, AES-256-GCM envelope               *)
(*   commands.rs  the Tauri commands built on it                           *)
(*   storage.rs   StorageManager: an in-memory map mirrored to a JSON file *)
(*                                                                         *)
(* Rust Strings are modelled as their UTF-8 byte sequences (0..255); the   *)
(* text of hex and B64 fields as sequences of one-character strings.       *)
(* Result<T, String> is a record [ok, value, err, work, key]: `work` lists *)
(* the cryptographic units the call ran, in order, and `key` the key it    *)
(* derived (both are observations of the call, not data it returns).       *)
(* Option<T> is a sequence of length 0 (None) or 1 (Some).                 *)
(***************************************************************************)
EXTENDS Integers, Sequences, FiniteSets, TLC

VARIABLES rng, sealed, stored, last,
          data, storage_path, file, dataLock, thr, calls, log

cryptoVars  == <<rng, sealed, stored, last>>
storageVars == <<data, storage_path, file, dataLock, thr, calls, log>>
vars        == <<rng, sealed, stored, last,
                 data, storage_path, file, dataLock, thr, calls, log>>

(***************************************************************************)
(* Bounds of the model.                                                    *)
(***************************************************************************)
MaxSeals == 2
MaxCalls == 3

\* Secrets sealed ("" and "5é"), the passwords they are sealed under ("" and
\* "p") and the passwords tried on opening (those and "q").
Secrets       == { <<>>, <<53, 195, 169>> }
SealPasswords == { <<>>, <<112>> }
Passwords     == SealPasswords \cup { <<113>> }

(***************************************************************************)
(* Small helpers.                                                          *)
(***************************************************************************)
RECURSIVE SumTo(_, _)
SumTo(s, n) == IF n = 0 THEN 0 ELSE (s[n] + SumTo(s, n - 1)) % 256
SumSeq(s) == SumTo(s, Len(s))

Ok(v, work, key) == [ok |-> TRUE,  value |-> v,    err |-> "",  work |-> work, key |-> key]
Err(e, work, key) == [ok |-> FALSE, value |-> <<>>, err |-> e, work |-> work, key |-> key]

(***************************************************************************)
(* hex crate: encode is lowercase; decode rejects an odd length, then any  *)
(* character that is not 0-9, a-f or A-F.                                  *)
(***************************************************************************)
HexLower == << "0", "1", "2", "3", "4", "5", "6", "7",
               "8", "9", "a", "b", "c", "d", "e", "f" >>
HexUpper == << "0", "1", "2", "3", "4", "5", "6", "7",
               "8", "9", "A", "B", "C", "D", "E", "F" >>
HexChars == { HexLower[i] : i \in 1..16 } \cup { HexUpper[i] : i \in 1..16 }

HexValues ==
    [ c \in HexChars |->
        IF \E i \in 1..16 : HexLower[i] = c
        THEN (CHOOSE i \in 1..16 : HexLower[i] = c) - 1
        ELSE (CHOOSE i \in 1..16 : HexUpper[i] = c) - 1 ]

HexVal(c) == IF c \in HexChars THEN HexValues[c] ELSE -1

hex_encode(bytes) ==
    [ i \in 1..(2 * Len(bytes)) |->
        IF i % 2 = 1 THEN HexLower[(bytes[(i + 1) \div 2] \div 16) + 1]
                     ELSE HexLower[(bytes[i \div 2] % 16) + 1] ]

hex_decode(s) ==
    IF Len(s) % 2 = 1 THEN [ok |-> FALSE, value |-> <<>>, err |-> "Odd number of digits"]
    ELSE IF \E i \in 1..Len(s) : HexVal(s[i]) = -1
    THEN [ok |-> FALSE, value |-> <<>>, err |-> "Invalid character"]
    ELSE [ok |-> TRUE, err |-> "",
          value |-> [ i \in 1..(Len(s) \div 2) |->
                        16 * HexVal(s[2 * i - 1]) + HexVal(s[2 * i]) ]]

(***************************************************************************)
(* password-hash B64 (unpadded, standard alphabet), used for the salt.     *)
(***************************************************************************)
B64Alphabet ==
    << "A", "B", "C", "D", "E", "F", "G", "H", "I", "J", "K", "L", "M",
       "N", "O", "P", "Q", "R", "S", "T", "U", "V", "W", "X", "Y", "Z",
       "a", "b", "c", "d", "e", "f", "g", "h", "i", "j", "k", "l", "m",
       "n", "o", "p", "q", "r", "s", "t", "u", "v", "w", "x", "y", "z",
       "0", "1", "2", "3", "4", "5", "6", "7", "8", "9", "+", "/" >>

B64Chars == { B64Alphabet[i] : i \in 1..64 }
B64Values == [ c \in B64Chars |-> (CHOOSE i \in 1..64 : B64Alphabet[i] = c) - 1 ]

IsB64Char(c) == c \in B64Chars
B64Val(c) == B64Values[c]

\* Character k (from 0) of the encoding: six bits starting at bit 6k.
B64Encode(bytes) ==
    LET byte(i) == IF i <= Len(bytes) THEN bytes[i] ELSE 0
        sextet(k) ==
            LET b == 3 * (k \div 4) + 1 IN
            CASE k % 4 = 0 -> byte(b) \div 4
              [] k % 4 = 1 -> (byte(b) % 4) * 16 + byte(b + 1) \div 16
              [] k % 4 = 2 -> (byte(b + 1) % 16) * 4 + byte(b + 2) \div 64
              [] OTHER     -> byte(b + 2) % 64
    IN  [ i \in 1..((Len(bytes) * 4 + 2) \div 3) |-> B64Alphabet[sextet(i - 1) + 1] ]

\* Byte k (from 0) of the decoding: eight bits starting at bit 8k.
B64Decode(s) ==
    LET val(i) == B64Val(s[i])
        octet(k) ==
            LET c == 4 * (k \div 3) + 1 IN
            CASE k % 3 = 0 -> val(c) * 4 + val(c + 1) \div 16
              [] k % 3 = 1 -> (val(c + 1) % 16) * 16 + val(c + 2) \div 4
              [] OTHER     -> (val(c + 2) % 4) * 64 + val(c + 3)
    IN  [ i \in 1..((Len(s) * 3) \div 4) |-> octet(i - 1) ]

(***************************************************************************)
(* String::from_utf8: the well-formedness test of UTF-8.                   *)
(***************************************************************************)
IsCont(b) == b >= 128 /\ b <= 191

RECURSIVE IsUtf8(_)
IsUtf8(b) ==
    IF Len(b) = 0 THEN TRUE
    ELSE IF b[1] < 128 THEN IsUtf8(Tail(b))
    ELSE IF b[1] >= 194 /\ b[1] <= 223 THEN
        Len(b) >= 2 /\ IsCont(b[2]) /\ IsUtf8(SubSeq(b, 3, Len(b)))
    ELSE IF b[1] >= 224 /\ b[1] <= 239 THEN
        /\ Len(b) >= 3
        /\ IsCont(b[2]) /\ IsCont(b[3])
        /\ (b[1] = 224 => b[2] >= 160)
        /\ (b[1] = 237 => b[2] <= 159)
        /\ IsUtf8(SubSeq(b, 4, Len(b)))
    ELSE IF b[1] >= 240 /\ b[1] <= 244 THEN
        /\ Len(b) >= 4
        /\ IsCont(b[2]) /\ IsCont(b[3]) /\ IsCont(b[4])
        /\ (b[1] = 240 => b[2] >= 144)
        /\ (b[1] = 244 => b[2] <= 143)
        /\ IsUtf8(SubSeq(b, 5, Len(b)))
    ELSE FALSE

String_from_utf8(bytes) ==
    IF IsUtf8(bytes) THEN [ok |-> TRUE, value |-> bytes, err |-> ""]
    ELSE [ok |-> FALSE, value |-> <<>>, err |-> "Invalid UTF-8"]

(***************************************************************************)
(* Library primitives.  rand, argon2 and aes-gcm are crates outside the    *)
(* repository; each is replaced by a small byte-level stand-in that keeps  *)
(* what the crate guarantees and the code relies on:                       *)
(*   thread_rng   every draw is a new value (draw numbers below 256);      *)
(*   Argon2id     deterministic; the password, the salt and each cost      *)
(*                parameter enter the output; different passwords (shorter *)
(*                than 16 bytes) or different 16-byte salts give different *)
(*                keys;                                                    *)
(*   AES-256-GCM  a keystream cipher followed by a 16-byte tag over key,   *)
(*                nonce and body; decryption recomputes the tag and        *)
(*                refuses on mismatch.                                     *)
(***************************************************************************)
RandomBytes(n, draw) == [ i \in 1..n |-> (37 * draw + 101 * i) % 256 ]

\* SaltString::generate: 16 random bytes in B64 (22 characters).
SaltString_generate(draw) == B64Encode(RandomBytes(16, draw))

\* SaltString::from_b64: 4..64 characters of the B64 alphabet that decode.
SaltString_from_b64(s) ==
    IF Len(s) < 4 THEN [ok |-> FALSE, value |-> <<>>, err |-> "salt invalid: too short"]
    ELSE IF Len(s) > 64 THEN [ok |-> FALSE, value |-> <<>>, err |-> "salt invalid: too long"]
    ELSE IF \E i \in 1..Len(s) : ~IsB64Char(s[i])
    THEN [ok |-> FALSE, value |-> <<>>, err |-> "salt invalid: contains invalid character"]
    ELSE IF Len(s) % 4 = 1
    THEN [ok |-> FALSE, value |-> <<>>, err |-> "salt invalid: invalid encoding"]
    ELSE [ok |-> TRUE, value |-> s, err |-> ""]

\* argon2::Params::new(m_cost, t_cost, p_cost, output_len)
Argon2_Params_new(m_cost, t_cost, p_cost, output_len) ==
    IF p_cost < 1 \/ t_cost < 1 \/ m_cost < 8 * p_cost \/ output_len < 4
    THEN [ok |-> FALSE, value |-> <<>>, err |-> "invalid parameters"]
    ELSE [ok |-> TRUE, err |-> "",
          value |-> [m_cost |-> m_cost, t_cost |-> t_cost,
                     p_cost |-> p_cost, output_len |-> output_len]]

Pad16(p) == [ i \in 1..16 |-> IF i <= Len(p) THEN p[i]
                              ELSE IF i = Len(p) + 1 THEN 128 ELSE 0 ]

\* Argon2::hash_password(password, salt): the hash output bytes.
Argon2_hash_password(params, password, salt) ==
    LET saltBytes == B64Decode(salt)
        padded    == Pad16(password)
        cost      == (params.m_cost \div 1024 + 3 * params.t_cost + 5 * params.p_cost) % 256
    IN  IF Len(saltBytes) < 8
        THEN [ok |-> FALSE, value |-> <<>>, err |-> "salt too short"]
        ELSE [ok |-> TRUE, err |-> "",
              value |-> [ i \in 1..params.output_len |->
                  IF i <= 16 THEN (padded[i] + cost) % 256
                  ELSE saltBytes[((i - 17) % Len(saltBytes)) + 1] ]]

Keystream(key, nonce, i) ==
    (key[((i - 1) % 32) + 1] + nonce[((i - 1) % 12) + 1] + i) % 256

GcmTag(key, nonce, body) ==
    LET sum == (SumSeq(nonce) + SumSeq(body) + Len(body)) % 256
    IN  [ j \in 1..16 |-> (key[j] + key[16 + j] + sum) % 256 ]

\* Aes256Gcm::encrypt(nonce, Payload { msg, aad: b"" }): body followed by tag.
Aes256Gcm_encrypt(key, nonce, msg) ==
    LET body == [ i \in 1..Len(msg) |-> (msg[i] + Keystream(key, nonce, i)) % 256 ]
    IN  body \o GcmTag(key, nonce, body)

\* Mutant of the decrypt call: a cipher mode that does not verify the tag.
Aes256Gcm_decrypt_unauthenticated(key, nonce, ct) ==
    IF Len(ct) < 16 THEN [ok |-> FALSE, value |-> <<>>, err |-> "aead::Error"]
    ELSE LET body == SubSeq(ct, 1, Len(ct) - 16)
         IN  [ok |-> TRUE, err |-> "",
              value |-> [ i \in 1..Len(body) |->
                  (body[i] + 256 - Keystream(key, nonce, i)) % 256 ]]

\* Aes256Gcm::decrypt(nonce, Payload { msg, aad: b"" })
Aes256Gcm_decrypt(key, nonce, ct) ==
    IF Len(ct) < 16 THEN [ok |-> FALSE, value |-> <<>>, err |-> "aead::Error"]
    ELSE LET body == SubSeq(ct, 1, Len(ct) - 16)
             tag  == SubSeq(ct, Len(ct) - 15, Len(ct))
         IN  IF tag # GcmTag(key, nonce, body)
             THEN [ok |-> FALSE, value |-> <<>>, err |-> "aead::Error"]
             ELSE [ok |-> TRUE, err |-> "",
                   value |-> [ i \in 1..Len(body) |->
                       (body[i] + 256 - Keystream(key, nonce, i)) % 256 ]]

\* let mut key = [0u8; 32]; key[..len].copy_from_slice(&hash_bytes[..len])
KeyFromHash(hash_bytes) ==
    [ i \in 1..32 |-> IF i <= Len(hash_bytes) THEN hash_bytes[i] ELSE 0 ]

(***************************************************************************)
(* crypto.rs                                                               *)
(***************************************************************************)
\* `let x = value;` followed by the rest of the function body.
Let(value, rest(_)) == rest(value)

\* Mutant of derive_key_from_password_with_salt: the two copies of the cost
\* parameters have drifted apart (3 iterations here, 2 when sealing).
derive_key_from_password_with_salt_drifted(password, salt_str) ==
    Let(SaltString_from_b64(salt_str), LAMBDA salt :
    IF ~salt.ok THEN Err("Invalid salt", <<>>, <<>>)
    ELSE
    Let(Argon2_Params_new(19456, 3, 1, 32), LAMBDA params :
    IF ~params.ok THEN Err("Failed to create Argon2 params", <<>>, <<>>)
    ELSE
    Let(Argon2_hash_password(params.value, password, salt.value), LAMBDA password_hash :
    IF ~password_hash.ok THEN Err("Password hashing failed", <<>>, <<>>)
    ELSE
    Let(KeyFromHash(password_hash.value), LAMBDA key :
    Ok(key, <<"argon2">>, key)))))

derive_key_from_password_with_salt(password, salt_str) ==
    Let(SaltString_from_b64(salt_str), LAMBDA salt :
    IF ~salt.ok THEN Err("Invalid salt", <<>>, <<>>)
    ELSE
    Let(Argon2_Params_new(19456, 2, 1, 32), LAMBDA params :
    IF ~params.ok THEN Err("Failed to create Argon2 params", <<>>, <<>>)
    ELSE
    Let(Argon2_hash_password(params.value, password, salt.value), LAMBDA password_hash :
    IF ~password_hash.ok THEN Err("Password hashing failed", <<>>, <<>>)
    ELSE
    Let(KeyFromHash(password_hash.value), LAMBDA key :
    Ok(key, <<"argon2">>, key)))))

\* `draw` is the state of thread_rng: the number of draws made before.
derive_key_from_password(password, draw) ==
    Let(SaltString_generate(draw), LAMBDA salt_str :
    Let(Argon2_Params_new(19456, 2, 1, 32), LAMBDA params :
    IF ~params.ok THEN Err("Failed to create Argon2 params", <<>>, <<>>)
    ELSE
    Let(Argon2_hash_password(params.value, password, salt_str), LAMBDA password_hash :
    IF ~password_hash.ok THEN Err("Password hashing failed", <<>>, <<>>)
    ELSE
    Let(KeyFromHash(password_hash.value), LAMBDA key :
    Ok(<<key, salt_str>>, <<"argon2">>, key)))))

EncryptedKey(ciphertext, nonce, tag, salt) ==
    [ciphertext |-> ciphertext, nonce |-> nonce, tag |-> tag, salt |-> salt]

\* Mutants of encrypt_private_key: the tag split off into the `tag` field;
\* a constant nonce.
encrypt_private_key_split_tag(private_key, password, draw) ==
    Let(RandomBytes(12, draw), LAMBDA nonce_bytes :
    Let(derive_key_from_password(password, draw + 1), LAMBDA derived :
    IF ~derived.ok THEN Err(derived.err, derived.work, <<>>)
    ELSE
    Let(Aes256Gcm_encrypt(derived.value[1], nonce_bytes, private_key), LAMBDA ciphertext :
    Ok(EncryptedKey(hex_encode(SubSeq(ciphertext, 1, Len(ciphertext) - 16)),
                    hex_encode(nonce_bytes),
                    hex_encode(SubSeq(ciphertext, Len(ciphertext) - 15, Len(ciphertext))),
                    derived.value[2]),
       derived.work \o <<"aes-gcm">>, derived.value[1]))))

encrypt_private_key_static_nonce(private_key, password, draw) ==
    Let([i \in 1..12 |-> 0], LAMBDA nonce_bytes :
    Let(derive_key_from_password(password, draw + 1), LAMBDA derived :
    IF ~derived.ok THEN Err(derived.err, derived.work, <<>>)
    ELSE
    Let(Aes256Gcm_encrypt(derived.value[1], nonce_bytes, private_key), LAMBDA ciphertext :
    Ok(EncryptedKey(hex_encode(ciphertext), hex_encode(nonce_bytes), <<>>,
                    derived.value[2]),
       derived.work \o <<"aes-gcm">>, derived.value[1]))))

encrypt_private_key(private_key, password, draw) ==
    Let(RandomBytes(12, draw), LAMBDA nonce_bytes :
    Let(derive_key_from_password(password, draw + 1), LAMBDA derived :
    IF ~derived.ok THEN Err(derived.err, derived.work, <<>>)
    ELSE
    Let(Aes256Gcm_encrypt(derived.value[1], nonce_bytes, private_key), LAMBDA ciphertext :
    Ok(EncryptedKey(hex_encode(ciphertext), hex_encode(nonce_bytes), <<>>,
                    derived.value[2]),
       derived.work \o <<"aes-gcm">>, derived.value[1]))))

\* Mutant of decrypt_private_key: a failed decryption yields the default
\* (empty) plaintext instead of an error.
decrypt_private_key_unwrap_or_default(encrypted_key, password) ==
    Let(derive_key_from_password_with_salt(password, encrypted_key.salt), LAMBDA key :
    IF ~key.ok THEN Err(key.err, key.work, <<>>)
    ELSE
    Let(hex_decode(encrypted_key.ciphertext), LAMBDA ciphertext :
    IF ~ciphertext.ok THEN Err("Failed to decode ciphertext", key.work, key.value)
    ELSE
    Let(hex_decode(encrypted_key.nonce), LAMBDA nonce_bytes :
    IF ~nonce_bytes.ok THEN Err("Failed to decode nonce", key.work, key.value)
    ELSE
    IF Len(nonce_bytes.value) # 12 THEN Err("Invalid nonce length", key.work, key.value)
    ELSE
    Let(Aes256Gcm_decrypt(key.value, nonce_bytes.value, ciphertext.value), LAMBDA plaintext :
    Let(String_from_utf8(plaintext.value), LAMBDA text :
    IF ~text.ok THEN Err("Invalid UTF-8", key.work \o <<"aes-gcm">>, key.value)
    ELSE Ok(text.value, key.work \o <<"aes-gcm">>, key.value))))))

decrypt_private_key(encrypted_key, password) ==
    Let(derive_key_from_password_with_salt(password, encrypted_key.salt), LAMBDA key :
    IF ~key.ok THEN Err(key.err, key.work, <<>>)
    ELSE
    Let(hex_decode(encrypted_key.ciphertext), LAMBDA ciphertext :
    IF ~ciphertext.ok THEN Err("Failed to decode ciphertext", key.work, key.value)
    ELSE
    Let(hex_decode(encrypted_key.nonce), LAMBDA nonce_bytes :
    IF ~nonce_bytes.ok THEN Err("Failed to decode nonce", key.work, key.value)
    ELSE
    IF Len(nonce_bytes.value) # 12 THEN Err("Invalid nonce length", key.work, key.value)
    ELSE
    Let(Aes256Gcm_decrypt(key.value, nonce_bytes.value, ciphertext.value), LAMBDA plaintext :
    IF ~plaintext.ok THEN Err("Decryption failed", key.work \o <<"aes-gcm">>, key.value)
    ELSE
    Let(String_from_utf8(plaintext.value), LAMBDA text :
    IF ~text.ok THEN Err("Invalid UTF-8", key.work \o <<"aes-gcm">>, key.value)
    ELSE Ok(text.value, key.work \o <<"aes-gcm">>, key.value))))))

(***************************************************************************)
(* serde_json on EncryptedKey.  A JSON text is "empty" (the empty string), *)
(* "invalid" (not JSON) or an "object" with a sequence of named members.   *)
(***************************************************************************)
JsonEmpty   == [json |-> "empty",   members |-> <<>>]
JsonInvalid == [json |-> "invalid", members |-> <<>>]
JsonObject(members) == [json |-> "object", members |-> members]

EncryptedKeyFields == <<"ciphertext", "nonce", "tag", "salt">>

\* serde_json::to_string(&encrypted_key): the fields in declaration order.
serde_json_to_string(ek) ==
    JsonObject(<< <<"ciphertext", ek.ciphertext>>, <<"nonce", ek.nonce>>,
                  <<"tag", ek.tag>>, <<"salt", ek.salt>> >>)

Occurrences(members, name) == { i \in 1..Len(members) : members[i][1] = name }
Member(members, name) == members[CHOOSE i \in Occurrences(members, name) : TRUE][2]

\* serde_json::from_str::<EncryptedKey>: every field is required, a field
\* given twice is an error, unknown fields are skipped, any string is taken.
serde_json_from_str(text) ==
    IF text.json = "empty"
    THEN [ok |-> FALSE, value |-> <<>>, err |-> "EOF while parsing a value"]
    ELSE IF text.json = "invalid"
    THEN [ok |-> FALSE, value |-> <<>>, err |-> "expected value"]
    ELSE IF \E f \in 1..4 : Cardinality(Occurrences(text.members, EncryptedKeyFields[f])) > 1
    THEN [ok |-> FALSE, value |-> <<>>, err |-> "duplicate field"]
    ELSE IF \E f \in 1..4 : Occurrences(text.members, EncryptedKeyFields[f]) = {}
    THEN [ok |-> FALSE, value |-> <<>>, err |-> "missing field"]
    ELSE [ok |-> TRUE, err |-> "",
          value |-> EncryptedKey(Member(text.members, "ciphertext"),
                                 Member(text.members, "nonce"),
                                 Member(text.members, "tag"),
                                 Member(text.members, "salt"))]

(***************************************************************************)
(* commands.rs.  An error message is the sequence of its parts:            *)
(* format!("Decryption failed: {}", e) is <<"Decryption failed", e>>.      *)
(***************************************************************************)
EncryptResponse(success, encrypted_data, error, work) ==
    [success |-> success, encrypted_data |-> encrypted_data, error |-> error,
     work |-> work]

DecryptResponse(success, decrypted_data, error, work) ==
    [success |-> success, decrypted_data |-> decrypted_data, error |-> error,
     work |-> work]

StoreKeyResponse(success, message, work) ==
    [success |-> success, message |-> message, work |-> work]

RetrieveKeyResponse(success, private_key, error, work) ==
    [success |-> success, private_key |-> private_key, error |-> error,
     work |-> work]

encrypt_sensitive_data(data_in, password, draw) ==
    IF data_in = <<>>
    THEN EncryptResponse(FALSE, <<>>, << <<"Data cannot be empty">> >>, <<>>)
    ELSE IF password = <<>>
    THEN EncryptResponse(FALSE, <<>>, << <<"Password cannot be empty">> >>, <<>>)
    ELSE Let(encrypt_private_key(data_in, password, draw), LAMBDA r :
         IF r.ok
         THEN EncryptResponse(TRUE, << serde_json_to_string(r.value) >>, <<>>, r.work)
         ELSE EncryptResponse(FALSE, <<>>, << <<"Encryption failed", r.err>> >>, r.work))

decrypt_sensitive_data(encrypted_data, password) ==
    IF encrypted_data.json = "empty"
    THEN DecryptResponse(FALSE, <<>>, << <<"Encrypted data cannot be empty">> >>, <<>>)
    ELSE IF password = <<>>
    THEN DecryptResponse(FALSE, <<>>, << <<"Password cannot be empty">> >>, <<>>)
    ELSE Let(serde_json_from_str(encrypted_data), LAMBDA encrypted_key :
         IF ~encrypted_key.ok
         THEN DecryptResponse(FALSE, <<>>,
                  << <<"Invalid encrypted data format", encrypted_key.err>> >>, <<>>)
         ELSE Let(decrypt_private_key(encrypted_key.value, password), LAMBDA r :
              IF r.ok
              THEN DecryptResponse(TRUE, << r.value >>, <<>>, r.work)
              ELSE DecryptResponse(FALSE, <<>>, << <<"Decryption failed", r.err>> >>,
                                   r.work)))

store_encrypted_key(request, draw) ==
    IF request.private_key = <<>>
    THEN StoreKeyResponse(FALSE, <<"Private key cannot be empty">>, <<>>)
    ELSE IF request.password = <<>>
    THEN StoreKeyResponse(FALSE, <<"Password cannot be empty">>, <<>>)
    ELSE Let(encrypt_private_key(request.private_key, request.password, draw), LAMBDA r :
         IF r.ok
         THEN StoreKeyResponse(TRUE, <<"Key stored securely">>, r.work)
         ELSE StoreKeyResponse(FALSE, <<"Encryption failed", r.err>>, r.work))

retrieve_encrypted_key(request) ==
    RetrieveKeyResponse(FALSE, <<>>, << <<"Key not found in storage">> >>, <<>>)

sign_transaction(transaction_data, encrypted_key_data, password) ==
    Let(serde_json_from_str(encrypted_key_data), LAMBDA encrypted_key :
    IF ~encrypted_key.ok
    THEN [ok |-> FALSE, value |-> <<>>, work |-> <<>>,
          err |-> <<"Invalid encrypted key format", encrypted_key.err>>]
    ELSE Let(decrypt_private_key(encrypted_key.value, password), LAMBDA private_key :
         IF ~private_key.ok
         THEN [ok |-> FALSE, value |-> <<>>, work |-> private_key.work,
               err |-> <<private_key.err>>]
         ELSE [ok |-> TRUE, err |-> <<>>, work |-> private_key.work,
               value |-> <<"s", "i", "g", "n", "e", "d", "_">>
                         \o hex_encode(transaction_data)]))

(***************************************************************************)
(* The vault as a state machine.                                           *)
(*   rng     state of thread_rng: the number of draws made so far          *)
(*   sealed  log of the envelopes encrypt_private_key has produced, each   *)
(*           with the secret, password and key of its call                 *)
(*   stored  the requests store_encrypted_key has answered with success    *)
(*   last    the call that has just returned, until the caller takes the   *)
(*           response                                                      *)
(***************************************************************************)
NoCall == [op |-> "none"]
Idle == last = NoCall

Usernames    == { "alice" }
KeyTypes     == { "active", "posting" }
Transactions == { <<116>> }

StoreKeyRequests ==
    [key_type : KeyTypes, private_key : Secrets, username : Usernames,
     password : SealPasswords]
RetrieveKeyRequests ==
    [key_type : KeyTypes, username : Usernames, password : Passwords]

\* A call that reached encrypt_private_key drew the nonce, then the salt.
RngAfter(draw, work) == IF work = <<>> THEN draw ELSE draw + 2

SealedEntry(r, secret, password) ==
    [env |-> r.value, key |-> r.key, secret |-> secret, password |-> password]

\* Envelopes a caller may hand to decrypt_private_key: one that was sealed,
\* or one with a damaged nonce, ciphertext or salt.
EnvVariants(e) ==
    { e,
      [e EXCEPT !.nonce = SubSeq(@, 1, 22)],
      [e EXCEPT !.nonce = SubSeq(@, 1, 23)],
      [e EXCEPT !.nonce = @ \o <<"0", "0">>],
      [e EXCEPT !.nonce = <<>>],
      [e EXCEPT !.nonce[1] = "z"],
      [e EXCEPT !.ciphertext[1] = "z"],
      [e EXCEPT !.ciphertext = SubSeq(@, 1, Len(@) - 2)],
      [e EXCEPT !.salt = <<"!", "!", "!", "!">>],
      [e EXCEPT !.salt = <<"A", "A", "A", "A">>],
      [e EXCEPT !.salt = <<"!", "!", "!", "!">>, !.nonce = SubSeq(@, 1, 22)] }

EnvelopeInputs == UNION { EnvVariants(sealed[i].env) : i \in 1..Len(sealed) }

\* One character of a hex field replaced by another hex character.
Replaced(hex, pos, c) == [hex EXCEPT ![pos] = c]

\* JSON texts a caller may hand to decrypt_sensitive_data or sign_transaction.
WireVariants(e) ==
    LET m == serde_json_to_string(e).members IN
    { JsonObject(m),
      JsonObject(<<m[4], m[3], m[2], m[1]>>),
      JsonObject(<<m[1], m[3], m[4]>>),
      JsonObject(<<m[1], m[2], m[4]>>),
      JsonObject(<<m[1], m[2], m[2], m[3], m[4]>>),
      JsonObject(m \o << <<"version", <<"1">>>> >>),
      JsonObject(<<m[1], <<"nonce", Replaced(e.nonce, 1, "z")>>, m[3], m[4]>>),
      JsonObject(<< <<"ciphertext", Replaced(e.ciphertext, 1, "z")>>, m[2], m[3], m[4]>>),
      JsonObject(<<m[1], <<"nonce", SubSeq(e.nonce, 1, 22)>>, m[3], m[4]>>) }

WireInputs ==
    { JsonEmpty, JsonInvalid }
    \cup UNION { WireVariants(sealed[i].env) : i \in 1..Len(sealed) }

SaltInputs ==
    { sealed[i].env.salt : i \in 1..Len(sealed) }
    \cup { <<>>, <<"!", "!", "!", "!">>, <<"A", "A", "A", "A">> }

(***************************************************************************)
(* storage.rs: StorageManager.                                             *)
(*   data          the HashMap behind `data: Mutex<..>`, a function from   *)
(*                 the keys present to their values                        *)
(*   storage_path  Option<PathBuf> behind its Mutex                        *)
(*   file          wallet_storage.json: whether it exists, and its text    *)
(*   dataLock      the thread holding the `data` mutex, 0 when free        *)
(*   thr           per thread: the call it is in, where, and its locals    *)
(*   calls         number of calls begun                                   *)
(*   log           history of the calls, kept for the properties only:     *)
(*                 whether one has failed, the keys whose set succeeded    *)
(*                 with no remove or clear of them issued since the set    *)
(*                 was, and the key each running set is storing            *)
(* The storage_path mutex is only ever held to copy or set the path, so    *)
(* each such critical section is one step.                                 *)
(***************************************************************************)
Threads    == { 1, 2 }
Keys       == { "k1", "k2" }
ValueTexts == { "1", "2", "oops" }

EmptyMap == << >>

\* serde_json::from_str::<Value>(&value) and Value::to_string on the values used.
ParseValue(text) ==
    CASE text = "1" -> [ok |-> TRUE, value |-> 1]
      [] text = "2" -> [ok |-> TRUE, value |-> 2]
      [] OTHER      -> [ok |-> FALSE, value |-> 0]

ValueText(v) == IF v = 1 THEN "1" ELSE "2"

\* The text of the file: "empty", "invalid" (not JSON), or an object whose
\* members are the pairs <<key, value text>> (a HashMap is written in no
\* particular order, so the members are a set).
FileText(json, members) == [json |-> json, members |-> members]

\* serde_json::to_string_pretty(&*data)
to_string_pretty(map) ==
    FileText("object", { <<k, ValueText(map[k])>> : k \in DOMAIN map })

\* serde_json::from_str::<HashMap<String, Value>>(&content)
from_str_map(content) ==
    IF content.json # "object" THEN [ok |-> FALSE, value |-> EmptyMap]
    ELSE [ok |-> TRUE,
          value |-> [ k \in { m[1] : m \in content.members } |->
                        ParseValue((CHOOSE m \in content.members : m[1] = k)[2]).value ]]

NoFile      == [exists |-> FALSE, content |-> FileText("empty", {})]
FileWith(c) == [exists |-> TRUE, content |-> c]

\* HashMap::insert, HashMap::remove
Insert(map, key, value) ==
    [ k \in DOMAIN map \cup {key} |-> IF k = key THEN value ELSE map[k] ]
Remove(map, key) == [ k \in DOMAIN map \ {key} |-> map[k] ]

IdleThread == [pc |-> "idle", op |-> "none", json |-> FileText("empty", {}),
               result |-> [ok |-> TRUE, value |-> <<>>, err |-> ""]]

NoLog == [failed |-> FALSE, kept |-> {}, setting |-> [ t \in Threads |-> "" ]]

\* A call returns: a failure is remembered, and so is the key of a set that
\* succeeded.
LogReturn(t, result) ==
    log' = [log EXCEPT !.failed = @ \/ ~result.ok,
                       !.kept = IF result.ok /\ log.setting[t] # ""
                                THEN @ \cup { log.setting[t] } ELSE @,
                       !.setting[t] = ""]

\* A set of key is issued.
LogSet(t, key) == log' = [log EXCEPT !.setting[t] = key]

\* A remove or a clear of the keys is issued.
LogDrop(keys) ==
    log' = [log EXCEPT !.kept = @ \ keys,
                       !.setting = [ u \in Threads |->
                                       IF log.setting[u] \in keys THEN ""
                                       ELSE log.setting[u] ]]

Returned(t, op, result) ==
    /\ thr' = [thr EXCEPT ![t] = [IdleThread EXCEPT !.op = op, !.result = result]]
    /\ LogReturn(t, result)
At(t, op, pc) ==
    thr' = [thr EXCEPT ![t] = [IdleThread EXCEPT !.op = op, !.pc = pc]]

ROk(v)  == [ok |-> TRUE,  value |-> v,    err |-> ""]
RErr(e) == [ok |-> FALSE, value |-> <<>>, err |-> e]

CanCall(t) == thr[t].pc = "idle" /\ calls < MaxCalls

\* init, first part: the path of the storage file is stored.
InitStorePath(t) ==
    /\ CanCall(t)
    /\ calls' = calls + 1
    /\ storage_path' = << "wallet_storage.json" >>
    /\ At(t, "init", "init_load")
    /\ UNCHANGED <<data, file, dataLock, log>>

\* init: storage_file.exists(), read_to_string, content.is_empty(), from_str.
\* A file that is absent or empty ends the call; so does one that does not parse.
InitReadFile(t) ==
    /\ thr[t].pc = "init_load"
    /\ IF ~file.exists \/ file.content.json = "empty"
       THEN Returned(t, "init", ROk(<<>>))
       ELSE IF ~from_str_map(file.content).ok
       THEN Returned(t, "init", RErr("Failed to parse storage file"))
       ELSE /\ thr' = [thr EXCEPT ![t].pc = "init_assign", ![t].json = file.content]
            /\ UNCHANGED log
    /\ UNCHANGED <<data, storage_path, file, dataLock, calls>>

\* init: *data = loaded_data, under the data lock.
InitAssign(t) ==
    /\ thr[t].pc = "init_assign"
    /\ dataLock = 0
    /\ data' = from_str_map(thr[t].json).value
    /\ Returned(t, "init", ROk(<<>>))
    /\ UNCHANGED <<storage_path, file, dataLock, calls>>

\* storage_set / StorageManager::set: the map is changed under the data
\* lock, which is released before save_to_disk is called.
SetInsert(t) ==
    /\ CanCall(t)
    /\ calls' = calls + 1
    /\ \E key \in Keys, text \in ValueTexts :
        IF ~ParseValue(text).ok
        THEN /\ Returned(t, "set", RErr("Invalid JSON"))
             /\ UNCHANGED data
        ELSE /\ dataLock = 0
             /\ data' = Insert(data, key, ParseValue(text).value)
             /\ At(t, "set", "save_path")
             /\ LogSet(t, key)
    /\ UNCHANGED <<storage_path, file, dataLock>>

RemoveKey(t) ==
    /\ CanCall(t)
    /\ dataLock = 0
    /\ calls' = calls + 1
    /\ \E key \in Keys : data' = Remove(data, key) /\ LogDrop({ key })
    /\ At(t, "remove", "save_path")
    /\ UNCHANGED <<storage_path, file, dataLock>>

ClearAll(t) ==
    /\ CanCall(t)
    /\ dataLock = 0
    /\ calls' = calls + 1
    /\ data' = EmptyMap
    /\ At(t, "clear", "save_path")
    /\ LogDrop(Keys)
    /\ UNCHANGED <<storage_path, file, dataLock>>

\* storage_get / StorageManager::get
Get(t) ==
    /\ CanCall(t)
    /\ dataLock = 0
    /\ calls' = calls + 1
    /\ \E key \in Keys :
        Returned(t, "get", ROk(IF key \in DOMAIN data
                               THEN << ValueText(data[key]) >> ELSE <<>>))
    /\ UNCHANGED <<data, storage_path, file, dataLock>>

\* save_to_disk: the path is copied; without one the call fails.
SaveReadPath(t) ==
    /\ thr[t].pc = "save_path"
    /\ IF storage_path = <<>>
       THEN Returned(t, thr[t].op, RErr("Storage not initialized"))
       ELSE /\ thr' = [thr EXCEPT ![t].pc = "save_lock"]
            /\ UNCHANGED log
    /\ UNCHANGED <<data, storage_path, file, dataLock, calls>>

\* save_to_disk: the data lock is taken and the map serialized.
SaveSerialize(t) ==
    /\ thr[t].pc = "save_lock"
    /\ dataLock = 0
    /\ dataLock' = t
    /\ thr' = [thr EXCEPT ![t].pc = "save_write", ![t].json = to_string_pretty(data)]
    /\ UNCHANGED <<data, storage_path, file, calls, log>>

\* save_to_disk: fs::write succeeds; the lock is dropped on return.
SaveWrite(t) ==
    /\ thr[t].pc = "save_write"
    /\ file' = FileWith(thr[t].json)
    /\ dataLock' = 0
    /\ Returned(t, thr[t].op, ROk(<<>>))
    /\ UNCHANGED <<data, storage_path, calls>>

\* save_to_disk: fs::write fails (the file cannot be created, or the write
\* breaks off after the file was truncated).
SaveWriteFails(t) ==
    /\ thr[t].pc = "save_write"
    /\ \/ UNCHANGED file
       \/ file' = FileWith(FileText("empty", {}))
    /\ dataLock' = 0
    /\ Returned(t, thr[t].op, RErr("Failed to write storage file"))
    /\ UNCHANGED <<data, storage_path, calls>>

\* What the file holds when the program starts.
InitialFiles ==
    { NoFile,
      FileWith(FileText("empty", {})),
      FileWith(FileText("invalid", {})),
      FileWith(FileText("object", {})),
      FileWith(FileText("object", { <<"k1", "1">> })) }

\* StorageManager::new()
InitStorageVars ==
    /\ data = EmptyMap
    /\ storage_path = <<>>
    /\ file = NoFile
    /\ dataLock = 0
    /\ thr = [ t \in Threads |-> IdleThread ]
    /\ calls = 0
    /\ log = NoLog

InitVault ==
    /\ rng = 0
    /\ sealed = <<>>
    /\ stored = {}
    /\ last = NoCall

Init == InitVault /\ InitStorageVars

EncryptPrivateKey ==
    /\ Idle
    /\ Len(sealed) < MaxSeals
    /\ \E secret \in Secrets, password \in SealPasswords :
           LET r == encrypt_private_key(secret, password, rng) IN
           /\ last' = [op |-> "encrypt_private_key", secret |-> secret,
                       password |-> password, res |-> r]
           /\ rng' = RngAfter(rng, r.work)
           /\ sealed' = IF r.ok THEN Append(sealed, SealedEntry(r, secret, password))
                        ELSE sealed
           /\ UNCHANGED stored

DecryptPrivateKey ==
    /\ Idle
    /\ \E env \in EnvelopeInputs, password \in Passwords :
           /\ last' = [op |-> "decrypt_private_key", env |-> env, password |-> password,
                       res |-> decrypt_private_key(env, password)]
           /\ UNCHANGED <<rng, sealed, stored>>

\* decrypt_private_key on the envelope sealed last with one hex character of
\* its ciphertext or nonce replaced, under the password it was sealed with.
DecryptTampered ==
    /\ Idle
    /\ \E i \in {Len(sealed)} \ {0}, field \in {"ciphertext", "nonce"} :
         \E pos \in 1..Len(sealed[i].env[field]), c \in HexChars :
           LET env == [sealed[i].env EXCEPT ![field] = Replaced(@, pos, c)] IN
           /\ c # sealed[i].env[field][pos]
           /\ last' = [op |-> "decrypt_private_key", env |-> env,
                       password |-> sealed[i].password,
                       res |-> decrypt_private_key(env, sealed[i].password)]
           /\ UNCHANGED <<rng, sealed, stored>>

DeriveWithSalt ==
    /\ Idle
    /\ \E password \in Passwords, salt_str \in SaltInputs :
           /\ last' = [op |-> "derive_key_from_password_with_salt",
                       password |-> password, salt |-> salt_str,
                       res |-> derive_key_from_password_with_salt(password, salt_str)]
           /\ UNCHANGED <<rng, sealed, stored>>

EncryptSensitiveData ==
    /\ Idle
    /\ Len(sealed) < MaxSeals
    /\ \E secret \in Secrets, password \in SealPasswords :
           LET resp == encrypt_sensitive_data(secret, password, rng)
               r    == encrypt_private_key(secret, password, rng)
           IN
           /\ last' = [op |-> "encrypt_sensitive_data", secret |-> secret,
                       password |-> password, res |-> resp]
           /\ rng' = RngAfter(rng, resp.work)
           /\ sealed' = IF resp.success THEN Append(sealed, SealedEntry(r, secret, password))
                        ELSE sealed
           /\ UNCHANGED stored

DecryptSensitiveData ==
    /\ Idle
    /\ \E text \in WireInputs, password \in Passwords :
           /\ last' = [op |-> "decrypt_sensitive_data", text |-> text,
                       password |-> password,
                       res |-> decrypt_sensitive_data(text, password)]
           /\ UNCHANGED <<rng, sealed, stored>>

StoreEncryptedKey ==
    /\ Idle
    /\ Len(sealed) < MaxSeals
    /\ \E request \in StoreKeyRequests :
           LET resp == store_encrypted_key(request, rng)
               r    == encrypt_private_key(request.private_key, request.password, rng)
           IN
           /\ last' = [op |-> "store_encrypted_key", request |-> request,
                       secret |-> request.private_key, password |-> request.password,
                       res |-> resp]
           /\ rng' = RngAfter(rng, resp.work)
           /\ sealed' = IF resp.success
                        THEN Append(sealed, SealedEntry(r, request.private_key, request.password))
                        ELSE sealed
           /\ stored' = IF resp.success THEN stored \cup {request} ELSE stored

RetrieveEncryptedKey ==
    /\ Idle
    /\ \E request \in RetrieveKeyRequests :
           /\ last' = [op |-> "retrieve_encrypted_key", request |-> request,
                       password |-> request.password,
                       res |-> retrieve_encrypted_key(request)]
           /\ UNCHANGED <<rng, sealed, stored>>

SignTransaction ==
    /\ Idle
    /\ \E transaction_data \in Transactions, text \in WireInputs, password \in Passwords :
           /\ last' = [op |-> "sign_transaction", text |-> text, password |-> password,
                       res |-> sign_transaction(transaction_data, text, password)]
           /\ UNCHANGED <<rng, sealed, stored>>

\* The caller takes the response; the next command can be issued.
Respond ==
    /\ ~Idle
    /\ last' = NoCall
    /\ UNCHANGED <<rng, sealed, stored>>

Next ==
    \/ EncryptPrivateKey /\ UNCHANGED storageVars
    \/ DecryptPrivateKey /\ UNCHANGED storageVars
    \/ DeriveWithSalt /\ UNCHANGED storageVars
    \/ EncryptSensitiveData /\ UNCHANGED storageVars
    \/ DecryptSensitiveData /\ UNCHANGED storageVars
    \/ StoreEncryptedKey /\ UNCHANGED storageVars
    \/ RetrieveEncryptedKey /\ UNCHANGED storageVars
    \/ SignTransaction /\ UNCHANGED storageVars
    \/ Respond /\ UNCHANGED storageVars

Spec == Init /\ [][Next]_vars

\* The vault under tampering: envelopes are sealed, tampered with and opened.
NextTamper ==
    \/ EncryptPrivateKey /\ UNCHANGED storageVars
    \/ DecryptTampered /\ UNCHANGED storageVars
    \/ Respond /\ UNCHANGED storageVars

SpecTamper == Init /\ [][NextTamper]_vars

\* The storage manager shared by the command threads.
InitStorage ==
    /\ InitVault
    /\ data = EmptyMap
    /\ storage_path = <<>>
    /\ file \in InitialFiles
    /\ dataLock = 0
    /\ thr = [ t \in Threads |-> IdleThread ]
    /\ calls = 0
    /\ log = NoLog

NextStorage ==
    \E t \in Threads :
        \/ InitStorePath(t) /\ UNCHANGED cryptoVars
        \/ InitReadFile(t) /\ UNCHANGED cryptoVars
        \/ InitAssign(t) /\ UNCHANGED cryptoVars
        \/ SetInsert(t) /\ UNCHANGED cryptoVars
        \/ RemoveKey(t) /\ UNCHANGED cryptoVars
        \/ ClearAll(t) /\ UNCHANGED cryptoVars
        \/ Get(t) /\ UNCHANGED cryptoVars
        \/ SaveReadPath(t) /\ UNCHANGED cryptoVars
        \/ SaveSerialize(t) /\ UNCHANGED cryptoVars
        \/ SaveWrite(t) /\ UNCHANGED cryptoVars
        \/ SaveWriteFails(t) /\ UNCHANGED cryptoVars

SpecStorage == InitStorage /\ [][NextStorage]_vars

(***************************************************************************)
(* Vocabulary of the claims: the error kinds of the specification, read    *)
(* off the messages the code produces, and the outcome of the last call.   *)
(***************************************************************************)
ErrorKind(msg) ==
    CASE msg = "Data cannot be empty"            -> "EmptySecret"
      [] msg = "Private key cannot be empty"     -> "EmptySecret"
      [] msg = "Password cannot be empty"        -> "EmptyPassword"
      [] msg = "Encrypted data cannot be empty"  -> "MalformedEnvelope"
      [] msg = "Invalid encrypted data format"   -> "MalformedEnvelope"
      [] msg = "Invalid encrypted key format"    -> "MalformedEnvelope"
      [] msg = "Failed to decode ciphertext"     -> "MalformedEnvelope"
      [] msg = "Failed to decode nonce"          -> "MalformedEnvelope"
      [] msg = "Invalid nonce length"            -> "InvalidNonceLength"
      [] msg = "Invalid salt"                    -> "MalformedSalt"
      [] msg = "Failed to create Argon2 params"  -> "InvalidParameters"
      [] msg = "Password hashing failed"         -> "PasswordHashingFailed"
      [] msg = "Decryption failed"               -> "AuthenticationFailed"
      [] msg = "Invalid UTF-8"                   -> "InvalidUtf8"
      [] msg = "Key not found in storage"        -> "NotFound"
      [] OTHER                                   -> "Other"

\* The kind of a command's message: a wrapper "Encryption failed: e" or
\* "Decryption failed: e" reports the kind of e.
PartsKind(parts) ==
    IF Len(parts) = 2 /\ parts[1] \in {"Encryption failed", "Decryption failed"}
    THEN ErrorKind(parts[2])
    ELSE ErrorKind(parts[1])

CryptoOps == {"encrypt_private_key", "decrypt_private_key",
              "derive_key_from_password_with_salt"}
SealOps == {"encrypt_private_key", "encrypt_sensitive_data", "store_encrypted_key"}
OpenOps == {"decrypt_private_key", "decrypt_sensitive_data", "sign_transaction"}

\* Did the last call succeed, and if not with which kind of error.
Succeeded ==
    CASE last.op \in CryptoOps \cup {"sign_transaction"} -> last.res.ok
      [] OTHER -> last.res.success

FailureKind ==
    CASE last.op \in CryptoOps -> ErrorKind(last.res.err)
      [] last.op = "sign_transaction" -> PartsKind(last.res.err)
      [] last.op = "store_encrypted_key" -> PartsKind(last.res.message)
      [] OTHER -> PartsKind(last.res.error[1])

FailedWith(kinds) == ~Succeeded /\ FailureKind \in kinds

\* The plaintext the last opening call handed back, as an Option.
Plaintext ==
    CASE last.op = "decrypt_private_key" ->
            IF last.res.ok THEN <<last.res.value>> ELSE <<>>
      [] last.op = "decrypt_sensitive_data" -> last.res.decrypted_data
      [] OTHER -> <<>>

SealedIndexes == 1..Len(sealed)

(***************************************************************************)
(* Claims about the vault.                                                 *)
(***************************************************************************)

\* C1. Round trip: an envelope sealed from a non-empty secret under a
\* non-empty password opens under that password to exactly that secret, both
\* through decrypt_private_key and, in its JSON wire form as
\* encrypt_sensitive_data returns it, through decrypt_sensitive_data.
C1_RoundTrip ==
    /\ (last.op = "encrypt_sensitive_data" /\ last.res.success) =>
           last.res.encrypted_data = << serde_json_to_string(sealed[Len(sealed)].env) >>
    /\ \A i \in SealedIndexes :
        (sealed[i].secret # <<>> /\ sealed[i].password # <<>>) =>
            /\ ( /\ last.op = "decrypt_private_key"
                 /\ last.env = sealed[i].env
                 /\ last.password = sealed[i].password )
               => (last.res.ok /\ last.res.value = sealed[i].secret)
            /\ ( /\ last.op = "decrypt_sensitive_data"
                 /\ last.text = serde_json_to_string(sealed[i].env)
                 /\ last.password = sealed[i].password )
               => (last.res.success /\ last.res.decrypted_data = << sealed[i].secret >>)

C1_Witness ==
    /\ last.op = "decrypt_sensitive_data"
    /\ \E i \in SealedIndexes :
        /\ sealed[i].secret # <<>>
        /\ last.text = serde_json_to_string(sealed[i].env)
        /\ last.res.success
        /\ last.res.decrypted_data = << sealed[i].secret >>

\* C2. Wrong password: opening a sealed envelope under a password other
\* than the one it was sealed with fails with AuthenticationFailed in
\* decrypt_private_key, and no opening call hands back a plaintext.
C2_WrongPassword ==
    \A i \in SealedIndexes :
        /\ ( /\ last.op = "decrypt_private_key"
             /\ last.env = sealed[i].env
             /\ last.password # sealed[i].password )
           => (FailedWith({"AuthenticationFailed"}) /\ Plaintext = <<>>)
        /\ ( /\ last.op \in {"decrypt_sensitive_data", "sign_transaction"}
             /\ last.text = serde_json_to_string(sealed[i].env)
             /\ last.password # sealed[i].password )
           => ( /\ ~Succeeded
                /\ Plaintext = <<>>
                /\ last.password # <<>> => FailureKind = "AuthenticationFailed" )

C2_Witness ==
    /\ last.op = "decrypt_private_key"
    /\ \E i \in SealedIndexes :
        /\ last.env = sealed[i].env
        /\ last.password # sealed[i].password
        /\ last.password # <<>>
        /\ sealed[i].password # <<>>
        /\ last.res.err = "Decryption failed"

\* C3. Nonce-length guard (as claimed): an envelope whose nonce decodes to a
\* length other than 12 bytes (its salt and ciphertext being well formed) is
\* rejected by decrypt_private_key as InvalidNonceLength/MalformedEnvelope
\* before any cryptographic work.
C3_NonceGuardBeforeCrypto ==
    ( /\ last.op = "decrypt_private_key"
      /\ SaltString_from_b64(last.env.salt).ok
      /\ hex_decode(last.env.ciphertext).ok
      /\ hex_decode(last.env.nonce).ok
      /\ Len(hex_decode(last.env.nonce).value) # 12 )
    => ( /\ FailedWith({"InvalidNonceLength", "MalformedEnvelope"})
         /\ last.res.work = <<>> )

\* C4. Empty-input validation (as claimed): on every entry point an empty
\* secret fails with EmptySecret and an empty password with EmptyPassword,
\* without the key-derivation or cipher unit being run.
C4_EmptyInputsRejectedBeforeCrypto ==
    /\ (last.op \in SealOps /\ last.secret = <<>>)
       => (FailedWith({"EmptySecret"}) /\ last.res.work = <<>>)
    /\ (last.op \in SealOps /\ last.secret # <<>> /\ last.password = <<>>)
       => (FailedWith({"EmptyPassword"}) /\ last.res.work = <<>>)
    /\ (last.op \in OpenOps /\ last.password = <<>>)
       => (FailedWith({"EmptyPassword"}) /\ last.res.work = <<>>)

\* C5. No reuse of salt or nonce: any two envelopes encrypt_private_key has
\* produced, also from the same secret and password, differ in their salt
\* and in their nonce; each carries a 12-byte nonce and a 16-byte salt.
C5_FreshSaltAndNonce ==
    /\ \A i \in SealedIndexes :
        /\ Len(sealed[i].env.nonce) = 24
        /\ Len(sealed[i].env.salt) = 22
    /\ \A i, j \in SealedIndexes :
        i # j => /\ sealed[i].env.salt # sealed[j].env.salt
                 /\ sealed[i].env.nonce # sealed[j].env.nonce

C5_Witness ==
    \E i, j \in SealedIndexes :
        /\ i # j
        /\ sealed[i].secret = sealed[j].secret
        /\ sealed[i].password = sealed[j].password
        /\ sealed[i].secret # <<>>
        /\ sealed[i].env.ciphertext # sealed[j].env.ciphertext

\* `t` is envelope `e` with one character of its ciphertext or of its nonce
\* replaced by a different hex character.
OneCharReplaced(a, b) ==
    /\ Len(a) = Len(b)
    /\ Cardinality({ p \in 1..Len(a) : a[p] # b[p] }) = 1
    /\ \A p \in 1..Len(a) : b[p] \in HexChars

Tampered(e, t) ==
    /\ t.salt = e.salt
    /\ t.tag = e.tag
    /\ \/ t.nonce = e.nonce /\ OneCharReplaced(e.ciphertext, t.ciphertext)
       \/ t.ciphertext = e.ciphertext /\ OneCharReplaced(e.nonce, t.nonce)

\* The tampering changed the bytes the field decodes to.
ChangesBytes(e, t) ==
    \/ hex_decode(t.ciphertext).value # hex_decode(e.ciphertext).value
    \/ hex_decode(t.nonce).value # hex_decode(e.nonce).value

\* C6 (as claimed). Tamper sensitivity: replacing any one hex character of
\* the ciphertext or nonce by any different hex character makes opening
\* under the right password fail with AuthenticationFailed.
C6_AnyReplacementFails ==
    \A i \in SealedIndexes :
        ( /\ last.op = "decrypt_private_key"
          /\ last.password = sealed[i].password
          /\ Tampered(sealed[i].env, last.env) )
        => FailedWith({"AuthenticationFailed"})

\* C6 (amended). A replacement that changes the hex digit's value makes the
\* opening fail with AuthenticationFailed; a replacement that only changes
\* the letter case of a digit decodes to the same bytes, and the opening
\* returns the original secret.
C6_TamperSensitivity ==
    \A i \in SealedIndexes :
        ( /\ last.op = "decrypt_private_key"
          /\ last.password = sealed[i].password
          /\ Tampered(sealed[i].env, last.env) )
        => IF ChangesBytes(sealed[i].env, last.env)
           THEN FailedWith({"AuthenticationFailed"}) /\ Plaintext = <<>>
           ELSE Succeeded /\ Plaintext = << sealed[i].secret >>

C6_Witness ==
    /\ last.op = "decrypt_private_key"
    /\ \E i \in SealedIndexes :
        /\ sealed[i].secret # <<>>
        /\ last.password = sealed[i].password
        /\ Tampered(sealed[i].env, last.env)
        /\ last.env.ciphertext # sealed[i].env.ciphertext
        /\ ChangesBytes(sealed[i].env, last.env)
        /\ last.res.err = "Decryption failed"

\* C7. Salt reuse on the decryption path: from the password and the salt
\* stored in an envelope, derive_key_from_password_with_salt returns the key
\* derive_key_from_password produced when the envelope was sealed, and
\* decrypt_private_key derives exactly that key.
C7_SameKeyFromStoredSalt ==
    \A i \in SealedIndexes :
        /\ ( /\ last.op = "derive_key_from_password_with_salt"
             /\ last.salt = sealed[i].env.salt
             /\ last.password = sealed[i].password )
           => (last.res.ok /\ last.res.value = sealed[i].key)
        /\ ( /\ last.op = "decrypt_private_key"
             /\ last.env.salt = sealed[i].env.salt
             /\ last.password = sealed[i].password )
           => last.res.key = sealed[i].key

C7_Witness ==
    /\ last.op = "derive_key_from_password_with_salt"
    /\ \E i \in SealedIndexes :
        /\ last.salt = sealed[i].env.salt
        /\ last.password = sealed[i].password
        /\ last.password # <<>>
        /\ last.res.value = sealed[i].key
        /\ Len(last.res.value) = 32

\* The JSON text lacks one of the four fields, or its ciphertext or nonce
\* member holds a character that is not a hex digit.
IsHexText(t) == \A p \in 1..Len(t) : t[p] \in HexChars

MalformedWire(text) ==
    /\ text.json = "object"
    /\ \/ \E f \in 1..4 : Occurrences(text.members, EncryptedKeyFields[f]) = {}
       \/ \E m \in 1..Len(text.members) :
            /\ text.members[m][1] \in {"ciphertext", "nonce"}
            /\ ~IsHexText(text.members[m][2])

\* C8 (as claimed). A wire text with a missing field or with non-hex
\* characters in ciphertext or nonce is rejected by the JSON parse as
\* MalformedEnvelope, before key derivation or decryption.
C8_MalformedWireRejectedAtParse ==
    ( /\ last.op \in {"decrypt_sensitive_data", "sign_transaction"}
      /\ MalformedWire(last.text)
      /\ (last.op = "decrypt_sensitive_data" => last.password # <<>>) )
    => ( /\ ~Succeeded
         /\ FailureKind = "MalformedEnvelope"
         /\ last.res.work = <<>> )

\* C10 (as claimed). Store-then-retrieve: once store_encrypted_key has
\* answered a request with success, retrieve_encrypted_key for the same
\* username, key type and password succeeds with that private key.
C10_StoredKeyIsRetrievable ==
    \A r \in stored :
        ( /\ last.op = "retrieve_encrypted_key"
          /\ last.request.username = r.username
          /\ last.request.key_type = r.key_type
          /\ last.request.password = r.password )
        => (last.res.success /\ last.res.private_key = << r.private_key >>)

\* What a reader of the file finds on disk: the map init would load.
DiskMap ==
    IF ~file.exists \/ file.content.json = "empty" THEN EmptyMap
    ELSE from_str_map(file.content).value

InitRunning == \E t \in Threads : thr[t].pc \in { "init_load", "init_assign" }

\* The storage file has been named, no init is under way, and the file on
\* disk, if any, is one init can read.
StorageReady ==
    /\ storage_path # <<>>
    /\ ~InitRunning
    /\ (file.exists /\ file.content.json # "empty") => from_str_map(file.content).ok

\* C9: whenever no thread holds the data lock, the in-memory map equals the
\* map the storage file holds; this includes the states after a mutation
\* whose flush to disk failed.
C9_MemoryMatchesDisk ==
    (StorageReady /\ dataLock = 0) => data = DiskMap

\* No storage call is in progress.
Quiescent == \A t \in Threads : thr[t].pc = "idle"

\* C11: once storage has been initialised, every call so far has returned
\* success and none is in progress, the storage file holds exactly the
\* in-memory map, and every key whose set returned success, with no remove
\* or clear of it issued since, is present in both.
C11_QuiescentStorageConsistent ==
    (Quiescent /\ storage_path # <<>> /\ ~log.failed) =>
        /\ data = DiskMap
        /\ \A k \in log.kept : k \in DOMAIN data /\ k \in DOMAIN DiskMap

====
